---- MODULE Spec2Model ----
(***************************************************************************)
(* Model of the figma-sync webhook service: a Figma webhook delivery       *)
(* fetches the design document, generates a file set and publishes it to   *)
(* GitHub as blobs -> tree -> commit -> branch ref -> pull request.        *)
(* Two builds of the service exist in the repository (the root server and  *)
(* tools/figma-sync/server.js); `variant` selects which one is running.    *)
(* Every `await` of a handler is one step of a run; the host (GitHub) and  *)
(* the design service (Figma) are the environment.                         *)
(***************************************************************************)
EXTENDS Integers, Sequences, FiniteSets, TLC

\* ---------------------------------------------------------------- state
VARIABLES
  variant,      \* which build of the service is deployed
  hostDefault,  \* default_branch as the host reports it
  now,          \* Date.now()
  pushes,       \* pushes made to the base branch by other parties
  refs,         \* host: ref name -> commit
  blobs,        \* host: blob objects (a blob is identified by its content)
  trees,        \* host: tree objects
  commits,      \* host: commit objects
  pulls,        \* host: pull requests, in creation order
  run,          \* per delivery: position and locals of the handler
  gen           \* generateCode called on its own: its input and its results

vars ==
  << variant, hostDefault, now, pushes, refs, blobs, trees, commits, pulls, run, gen >>

host == << refs, blobs, trees, commits, pulls >>

\* ---------------------------------------------------------------- bounds
MaxClock == 1      \* Date.now() ranges over 0..MaxClock
MaxPushes == 1     \* pushes to the base branch by other parties

\* The deliveries handled, one after the other or concurrently. The properties
\* below are about one run or about a pair of runs, and the runs share nothing
\* but the host.
Runs == {1, 2}

\* ------------------------------------------------------- configuration
Variants == {"root", "tools"}

FIGMA_FILE_ID == "fileA"
OtherFileId == "fileB"
NoFileId == ""
FileIds == {NoFileId, FIGMA_FILE_ID, OtherFileId}

CODEGEN_TARGET(v) == IF v = "root" THEN "." ELSE "apps/tma"

\* branch names are sequences of path segments; the host may report no default
NoDefault == << >>
HostDefaults == {<< "main" >>, << "master" >>, NoDefault}

\* ------------------------------------------------------ design documents
Node(t, n) == [type |-> t, name |-> n]
Page(ch) == [children |-> ch]

DocHomeSettings ==
  [json |-> "object",
   pages |-> << Page(<< Node("FRAME", "Home"), Node("TEXT", "Note"),
                        Node("FRAME", "Settings") >>) >>]
DocNoPages == [json |-> "object", pages |-> << >>]
\* an object without `document`: `?.` yields undefined and `|| []` no children
DocNoDocument == [json |-> "object without document", pages |-> << >>]
NullJson == [json |-> "null", pages |-> << >>]

\* what the design service may answer a delivery's fetch with
Docs == {DocHomeSettings, NullJson}

\* HTTP statuses the design service answers with
FetchStatuses == {200, 403, 404, 429, 500}
Transient == {429, 500}

ResOkAlways(status) == TRUE
\* res.ok of node-fetch: status in 200..299
ResOk(status) == status >= 200 /\ status <= 299

AfterFetchFailureRetry(status, attempts) ==
  IF status \in Transient /\ attempts < 2 THEN "fetch" ELSE "done"
\* fetchFigmaDoc throws on a non-OK response; the handler's catch ends the run
AfterFetchFailure(status, attempts) == "done"

\* ---------------------------------------------------------- generateCode
\* a JSON `null` body makes `figmaJson.document` throw a TypeError
Throws(figmaJson) == figmaJson.json = "null"

\* figmaJson.document?.children?.[0]?.children || []
FirstPageChildren(figmaJson) ==
  IF Len(figmaJson.pages) = 0 THEN << >> ELSE figmaJson.pages[1].children

IsFrame(n) == n.type = "FRAME"

RECURSIVE Names(_)
Names(nodes) ==
  IF Len(nodes) = 0 THEN << >>
  ELSE << Head(nodes).name >> \o Names(Tail(nodes))

topFramesUnfiltered(figmaJson) == Names(FirstPageChildren(figmaJson))
topFrames(figmaJson) == Names(SelectSeq(FirstPageChildren(figmaJson), IsFrame))

File(p, c) == [path |-> p, content |-> c]

TokensPath(v) == << CODEGEN_TARGET(v), "src/tokens.json" >>
ScreensPath(v) == << CODEGEN_TARGET(v), "src/generated/screens.map.ts" >>
IndexPath(v) == << CODEGEN_TARGET(v), "src/generated/index.ts" >>

HomePathClash(v) == IndexPath(v)
HomePath(v) == << CODEGEN_TARGET(v), "src/generated/Home.tsx" >>

TokensContent == << "tokens", "color.primary=#0EA5E9", "spacing.m=16" >>
ScreensContent(frames) == << "export const screens = " >> \o frames \o << " as const;" >>
HomeContent == << "export default function Home(){ GRITHER }" >>
IndexContent == << "export Home from ./Home", "export screens from ./screens.map" >>

\* the file a module for screen `n` would be, after `src/generated/Home.tsx`
ModuleFile(n) ==
  CASE n = "Home" -> "src/generated/Home.tsx"
    [] n = "Settings" -> "src/generated/Settings.tsx"
    [] OTHER -> "src/generated/Other.tsx"

ModulePath(v, n) == << CODEGEN_TARGET(v), ModuleFile(n) >>

\* the index line that would export the module of screen `n`
ExportLine(n) ==
  CASE n = "Home" -> "export Home from ./Home"
    [] n = "Settings" -> "export Settings from ./Settings"
    [] OTHER -> "export Other from ./Other"

RECURSIVE ScreenModuleFiles(_, _)
ScreenModuleFiles(v, names) ==
  IF Len(names) = 0 THEN << >>
  ELSE << File(ModulePath(v, Head(names)), << "export default function", Head(names) >>) >>
       \o ScreenModuleFiles(v, Tail(names))

RECURSIVE ExportLines(_)
ExportLines(names) ==
  IF Len(names) = 0 THEN << >>
  ELSE << ExportLine(Head(names)) >> \o ExportLines(Tail(names))

\* a generator that stamps its output with the time of generation
generateCodeStamped(v, figmaJson) ==
  << File(TokensPath(v), TokensContent),
     File(ScreensPath(v),
          ScreensContent(topFrames(figmaJson)) \o << "generated at", ToString(now) >>),
     File(HomePath(v), HomeContent),
     File(IndexPath(v), IndexContent) >>

\* a generator that emits one module per screen of the manifest
generateCodePerScreen(v, figmaJson) ==
  << File(TokensPath(v), TokensContent),
     File(ScreensPath(v), ScreensContent(topFrames(figmaJson))) >>
  \o ScreenModuleFiles(v, topFrames(figmaJson))
  \o << File(IndexPath(v),
              ExportLines(topFrames(figmaJson)) \o << "export screens from ./screens.map" >>) >>

\* the entries of `files` in insertion order (Object.entries order)
generateCode(v, figmaJson) ==
  << File(TokensPath(v), TokensContent),
     File(ScreensPath(v), ScreensContent(topFrames(figmaJson))),
     File(HomePath(v), HomeContent),
     File(IndexPath(v), IndexContent) >>

Paths(files) == {files[k].path : k \in 1..Len(files)}

\* ------------------------------------------------------------- the host
ReadmePath == << "", "README.md" >>

InitialTree(v) ==
  (ReadmePath :> << "readme", "0" >>) @@ (TokensPath(v) :> << "tokens", "old" >>)

InitialCommit(v) ==
  [tree |-> InitialTree(v), parents |-> << >>, message |-> "init", date |-> 0]

\* a push by another party rewrites the README
PushedTree(t, n) == (ReadmePath :> << "readme", ToString(n) >>) @@ t

\* `figma-sync/${Date.now()}`
BranchName(t) == << "figma-sync", ToString(t) >>

\* `heads/${baseBranch}` and `refs/heads/${branch}` name refs of one namespace
RefName(b) == << "heads" >> \o b

ResolveBaseStale(v, rs, b) == InitialCommit(v)
\* octo.git.getRef(...).data.object.sha: the live head of the base branch
ResolveBase(v, rs, b) == rs[RefName(b)]

\* treeItems applied in order over a tree (later entries win)
RECURSIVE Overlay(_, _)
Overlay(t, items) ==
  IF Len(items) = 0 THEN t
  ELSE Overlay((Head(items).path :> Head(items).sha) @@ t, Tail(items))

EmptyTree == [p \in {} |-> << >>]

CreateTreeNoBase(baseSha, items) == Overlay(EmptyTree, items)
\* octo.git.createTree({ base_tree: baseSha, tree: treeItems })
CreateTree(baseSha, items) == Overlay(baseSha.tree, items)

\* parents: [baseSha]
CommitParents(baseSha) == << baseSha >>

CreateCommit(t, baseSha, date) ==
  [tree |-> t, parents |-> CommitParents(baseSha),
   message |-> "chore(figma): auto-sync", date |-> date]

\* a host that also rejects a ref whose commit does not descend from a live head
CreateRefIfCurrent(rs, name, sha) ==
  IF name \in DOMAIN rs \/ (\A n \in DOMAIN rs : << rs[n] >> # sha.parents)
  THEN [ok |-> FALSE, refs |-> rs]
  ELSE [ok |-> TRUE, refs |-> (name :> sha) @@ rs]

CreateRefForce(rs, name, sha) ==
  [ok |-> TRUE, refs |-> (name :> sha) @@ rs]
\* octo.git.createRef: the host rejects a ref name that already exists
CreateRef(rs, name, sha) ==
  IF name \in DOMAIN rs THEN [ok |-> FALSE, refs |-> rs]
  ELSE [ok |-> TRUE, refs |-> (name :> sha) @@ rs]

PullRequestSwapped(head, base) == [head |-> base, base |-> head, state |-> "open"]
\* octo.pulls.create({ head: branch, base: baseBranch, ... })
PullRequest(head, base) == [head |-> head, base |-> base, state |-> "open"]

PullsCreateDedup(ps, pr) ==
  IF \E k \in 1..Len(ps) : ps[k].base = pr.base THEN ps ELSE Append(ps, pr)
PullsCreate(ps, pr) == Append(ps, pr)

\* res.sendStatus(200) / res.status(200).send("OK")
OkStatus == 200

ErrorStatusSwallowed == OkStatus
\* res.status(500).send(String(e))
ErrorStatus == 500

\* `repoInfo.data.default_branch || "main"`; the tools build hard-codes "main"
BaseBranchOf(v, reported) ==
  IF v = "tools" THEN << "main" >>
  ELSE IF reported = NoDefault THEN << "main" >> ELSE reported

\* `base: baseBranch`; the tools build passes the literal "main"
PullBase(v, baseBranch) == IF v = "tools" THEN << "main" >> ELSE baseBranch

\* the branch the host really has as its default
HostBranch(reported) == IF reported = NoDefault THEN << "main" >> ELSE reported

NoCommit == [tree |-> EmptyTree, parents |-> << >>, message |-> "", date |-> 0 - 1]

IdleRun ==
  [pc |-> "idle", fileId |-> NoFileId, status |-> 0,
   attempts |-> 0, fetchStatus |-> 0, figmaJson |-> NullJson, files |-> << >>,
   baseBranch |-> << >>, baseSha |-> NoCommit, headAtRead |-> NoCommit,
   headAtRef |-> NoCommit,
   branch |-> << >>, treeItems |-> << >>, tree |-> EmptyTree,
   commit |-> NoCommit, pr |-> 0,
   failedAt |-> "", fault |-> FALSE, log |-> << >>, after |-> {}]

\* the host has its default branch; a host whose default is not "main" may
\* have a branch "main" as well
InitialRefSets(v, reported) ==
  LET only == (RefName(HostBranch(reported)) :> InitialCommit(v))
  IN  IF HostBranch(reported) = << "main" >> THEN {only}
      ELSE {only, (RefName(<< "main" >>) :> InitialCommit(v)) @@ only}

\* generateCode has not been called on its own
GenIdle ==
  [doc |-> NullJson, calls |-> 0, at |-> << >>, first |-> << >>, second |-> << >>]

Init ==
  /\ variant \in Variants
  /\ hostDefault \in HostDefaults
  /\ now = 0
  /\ pushes = 0
  /\ refs \in InitialRefSets(variant, hostDefault)
  /\ blobs = {InitialTree(variant)[p] : p \in DOMAIN InitialTree(variant)}
  /\ trees = {InitialTree(variant)}
  /\ commits = {InitialCommit(variant)}
  /\ pulls = << >>
  /\ run = [r \in Runs |-> IdleRun]
  /\ gen = GenIdle

Done(r) == run[r].pc = "done"

CatchResume(rec, step, isFault) ==
  [rec EXCEPT !.status = ErrorStatus, !.failedAt = step, !.fault = isFault]
\* a catch block that ends the handler without sending a response
CatchSilent(rec, step, isFault) ==
  [rec EXCEPT !.pc = "done", !.failedAt = step, !.fault = isFault]
\* the handler's catch block: respond 500 and end
Catch(rec, step, isFault) ==
  [rec EXCEPT !.pc = "done", !.status = ErrorStatus,
              !.failedAt = step, !.fault = isFault]

FirstHostStep(v) == IF v = "root" THEN "repos.get" ELSE "git.getRef"

\* a filter that also drops a delivery whose payload names no file
SkipDeliveryStrict(v, fileId) == v = "root" /\ fileId # FIGMA_FILE_ID
\* `if (fileId && fileId !== FIGMA_FILE_ID)`; the tools build has no filter
SkipDelivery(v, fileId) ==
  v = "root" /\ fileId # NoFileId /\ fileId # FIGMA_FILE_ID

\* ---------------------------------------------------------- the webhook
\* app.post("/figma-webhook"): a delivery arrives; the root build ignores
\* deliveries for another file
Receive(r, fileId) ==
  /\ run[r].pc = "idle"
  /\ LET rec == [run[r] EXCEPT !.fileId = fileId,
                               !.after = {q \in Runs : Done(q)}]
     IN  run' = [run EXCEPT ![r] =
           IF SkipDelivery(variant, fileId)
           THEN [rec EXCEPT !.pc = "done", !.status = OkStatus]
           ELSE [rec EXCEPT !.pc = "fetch"]]
  /\ UNCHANGED << gen, variant, hostDefault, now, pushes, host >>

\* fetchFigmaDoc answers; on success generateCode runs in the same turn
Fetch(r, status, doc) ==
  /\ run[r].pc = "fetch"
  /\ LET rec == [run[r] EXCEPT !.attempts = @ + 1, !.fetchStatus = status,
                               !.fileId = NoFileId]
     IN  run' = [run EXCEPT ![r] =
           IF ~ResOk(status)
           THEN IF AfterFetchFailure(status, rec.attempts) = "fetch"
                THEN rec
                ELSE Catch(rec, "fetch", FALSE)
           ELSE IF Throws(doc)
                THEN Catch([rec EXCEPT !.figmaJson = doc], "generateCode", FALSE)
                ELSE [rec EXCEPT !.figmaJson = doc,
                                 !.files = generateCode(variant, doc),
                                 !.pc = FirstHostStep(variant)]]
  /\ UNCHANGED << gen, variant, hostDefault, now, pushes, host >>

\* ---------------------------------------------------------------- openPR
Logged(rec, op) == [rec EXCEPT !.log = Append(@, op)]

\* octo.repos.get: read the default branch name
ReposGet(r) ==
  /\ run[r].pc = "repos.get"
  /\ run' = [run EXCEPT ![r] =
       [Logged(@, "repos.get") EXCEPT
          !.baseBranch = BaseBranchOf(variant, hostDefault),
          !.pc = "git.getRef"]]
  /\ UNCHANGED << gen, variant, hostDefault, now, pushes, host >>

\* the base branch a run reads from at the getRef step
BaseAtGetRef(r) ==
  IF variant = "tools" THEN BaseBranchOf(variant, hostDefault) ELSE run[r].baseBranch

\* octo.git.getRef: read the head of the base branch, then name the new
\* branch from the clock (no await in between)
GetRef(r) ==
  /\ run[r].pc = "git.getRef"
  /\ LET b == BaseAtGetRef(r)
     IN  run' = [run EXCEPT ![r] =
           IF RefName(b) \notin DOMAIN refs
           THEN Catch([@ EXCEPT !.baseBranch = b], "git.getRef", FALSE)
           ELSE [Logged(@, "git.getRef") EXCEPT
                   !.baseBranch = b,
                   !.baseSha = ResolveBase(variant, refs, b),
                   !.headAtRead = refs[RefName(b)],
                   !.branch = BranchName(now),
                   !.treeItems = << >>,
                   !.pc = "git.createBlob"]]
  /\ UNCHANGED << gen, variant, hostDefault, now, pushes, host >>

\* one iteration of `for (const [path, content] of Object.entries(files))`
CreateBlob(r) ==
  /\ run[r].pc = "git.createBlob"
  /\ LET k == Len(run[r].treeItems) + 1
         f == run[r].files[k]
     IN  /\ blobs' = blobs \cup {f.content}
         /\ run' = [run EXCEPT ![r] =
              [Logged(@, "git.createBlob") EXCEPT
                 !.treeItems = Append(@, [path |-> f.path, sha |-> f.content]),
                 !.pc = IF k = Len(run[r].files) THEN "git.createTree"
                        ELSE "git.createBlob"]]
  /\ UNCHANGED << gen, variant, hostDefault, now, pushes, refs, trees, commits, pulls >>

\* octo.git.createTree
CreateTreeStep(r) ==
  /\ run[r].pc = "git.createTree"
  /\ LET t == CreateTree(run[r].baseSha, run[r].treeItems)
     IN  /\ trees' = trees \cup {t}
         /\ run' = [run EXCEPT ![r] =
              [Logged(@, "git.createTree") EXCEPT
                 !.tree = t, !.pc = "git.createCommit"]]
  /\ UNCHANGED << gen, variant, hostDefault, now, pushes, refs, blobs, commits, pulls >>

\* octo.git.createCommit; the host stamps the commit with its clock
CreateCommitStep(r) ==
  /\ run[r].pc = "git.createCommit"
  /\ LET c == CreateCommit(run[r].tree, run[r].baseSha, now)
     IN  /\ commits' = commits \cup {c}
         /\ run' = [run EXCEPT ![r] =
              [Logged(@, "git.createCommit") EXCEPT
                 !.commit = c, !.pc = "git.createRef"]]
  /\ UNCHANGED << gen, variant, hostDefault, now, pushes, refs, blobs, trees, pulls >>

\* octo.git.createRef
CreateRefStep(r) ==
  /\ run[r].pc = "git.createRef"
  /\ LET res == CreateRef(refs, RefName(run[r].branch), run[r].commit)
         seen == [run[r] EXCEPT !.headAtRef = refs[RefName(run[r].baseBranch)]]
     IN  /\ refs' = res.refs
         /\ run' = [run EXCEPT ![r] =
              IF res.ok
              THEN [Logged(seen, "git.createRef") EXCEPT !.pc = "pulls.create"]
              ELSE Catch(seen, "git.createRef", FALSE)]
  /\ UNCHANGED << gen, variant, hostDefault, now, pushes, blobs, trees, commits, pulls >>

\* octo.pulls.create, then the handler answers 200
PullsCreateStep(r) ==
  /\ run[r].pc = "pulls.create"
  /\ pulls' = PullsCreate(pulls, PullRequest(run[r].branch, PullBase(variant, run[r].baseBranch)))
  /\ run' = [run EXCEPT ![r] =
       [Logged(@, "pulls.create") EXCEPT
          !.pr = Len(pulls'), !.status = OkStatus, !.pc = "done"]]
  /\ UNCHANGED << gen, variant, hostDefault, now, pushes, refs, blobs, trees, commits >>

HostSteps ==
  {"repos.get", "git.getRef", "git.createBlob", "git.createTree",
   "git.createCommit", "git.createRef", "pulls.create"}

\* any call to the host may be rejected (network, rate limit, permissions):
\* the rejected promise is caught by the handler
HostFail(r) ==
  /\ run[r].pc \in HostSteps
  /\ run' = [run EXCEPT ![r] = Catch(@, run[r].pc, TRUE)]
  /\ UNCHANGED << gen, variant, hostDefault, now, pushes, host >>

\* ------------------------------------------------------- the environment
Tick ==
  /\ now < MaxClock
  /\ now' = now + 1
  /\ UNCHANGED << gen, variant, hostDefault, pushes, host, run >>

\* another party pushes a commit to the host's default branch
ExternalPush ==
  /\ pushes < MaxPushes
  /\ LET name == RefName(HostBranch(hostDefault))
         old == refs[name]
         t == PushedTree(old.tree, pushes + 1)
         c == [tree |-> t, parents |-> << old >>, message |-> "push", date |-> now]
     IN  /\ refs' = [refs EXCEPT ![name] = c]
         /\ blobs' = blobs \cup {t[ReadmePath]}
         /\ trees' = trees \cup {t}
         /\ commits' = commits \cup {c}
  /\ pushes' = pushes + 1
  /\ UNCHANGED << gen, variant, hostDefault, now, pulls, run >>

Next ==
  \/ \E r \in Runs, fileId \in FileIds : Receive(r, fileId)
  \/ \E r \in Runs, status \in FetchStatuses, doc \in Docs : Fetch(r, status, doc)
  \/ \E r \in Runs : ReposGet(r)
  \/ \E r \in Runs : GetRef(r)
  \/ \E r \in Runs : CreateBlob(r)
  \/ \E r \in Runs : CreateTreeStep(r)
  \/ \E r \in Runs : CreateCommitStep(r)
  \/ \E r \in Runs : CreateRefStep(r)
  \/ \E r \in Runs : PullsCreateStep(r)
  \/ \E r \in Runs : HostFail(r)
  \/ Tick
  \/ ExternalPush

Spec == Init /\ [][Next]_vars

\* the pending call of run `r` returns or fails: the handler's next step
RunStep(r) ==
  \/ \E status \in FetchStatuses, doc \in Docs : Fetch(r, status, doc)
  \/ ReposGet(r)
  \/ GetRef(r)
  \/ CreateBlob(r)
  \/ CreateTreeStep(r)
  \/ CreateCommitStep(r)
  \/ CreateRefStep(r)
  \/ PullsCreateStep(r)
  \/ HostFail(r)

\* every awaited call settles: the event loop resumes each handler in turn
SpecLive == Spec /\ \A r \in Runs : WF_vars(RunStep(r))

\* ------------------------------------------------ generateCode on its own
\* generateCode is called twice on one document, while the clock advances
\* and the host changes; no delivery is handled.
MaxChildren == 3   \* top-level children of the first page

NodeTypes == {"FRAME", "TEXT"}
NodeNames == {"Home", "Settings"}
GenNodes == {Node(t, n) : t \in NodeTypes, n \in NodeNames}

SeqsUpTo(S, n) == UNION {[1..k -> S] : k \in 0..n}

\* well-formed documents: one page with up to MaxChildren children, a second
\* page that holds a frame of its own, no page, no document
GenDocs ==
     {[json |-> "object", pages |-> << Page(ch) >>] :
        ch \in SeqsUpTo(GenNodes, MaxChildren)}
  \cup {[json |-> "object",
         pages |-> << Page(ch), Page(<< Node("FRAME", "Other") >>) >>] :
        ch \in SeqsUpTo(GenNodes, 1)}
  \cup {DocNoPages, DocNoDocument}

InitGen ==
  /\ variant \in Variants
  /\ hostDefault \in HostDefaults
  /\ now = 0
  /\ pushes = 0
  /\ refs \in InitialRefSets(variant, hostDefault)
  /\ blobs = {InitialTree(variant)[p] : p \in DOMAIN InitialTree(variant)}
  /\ trees = {InitialTree(variant)}
  /\ commits = {InitialCommit(variant)}
  /\ pulls = << >>
  /\ run = [r \in Runs |-> IdleRun]
  /\ \E d \in GenDocs : gen = [GenIdle EXCEPT !.doc = d]

\* const files = generateCode(figmaJson)
GenCall ==
  /\ gen.calls < 2
  /\ gen' = [gen EXCEPT
        !.calls = @ + 1,
        !.at = Append(@, now),
        !.first = IF gen.calls = 0 THEN generateCode(variant, gen.doc) ELSE @,
        !.second = IF gen.calls = 1 THEN generateCode(variant, gen.doc) ELSE @]
  /\ UNCHANGED << variant, hostDefault, now, pushes, host, run >>

NextGen ==
  \/ GenCall
  \/ Tick
  \/ ExternalPush

SpecGen == InitGen /\ [][NextGen]_vars

\* ------------------------------------------------------------ properties
Has(r, op) == \E k \in 1..Len(run[r].log) : run[r].log[k] = op

Count(r, op) == Cardinality({k \in 1..Len(run[r].log) : run[r].log[k] = op})

HostWriteOps ==
  {"git.createBlob", "git.createTree", "git.createCommit", "git.createRef",
   "pulls.create"}

HostWrites(r) ==
  Cardinality({k \in 1..Len(run[r].log) : run[r].log[k] \in HostWriteOps})

Succeeded(r) == Done(r) /\ Has(r, "pulls.create")

Skipped(r) == Done(r) /\ run[r].attempts = 0

FetchFailed(r) == Done(r) /\ run[r].fetchStatus \notin {0, 200}

AutoSync(c) == c.message = "chore(figma): auto-sync"

ContentAt(files, p) == files[CHOOSE k \in 1..Len(files) : files[k].path = p].content

\* the refs named like the branches the pipeline creates
SyncRefs == {n \in DOMAIN refs : n[2] = "figma-sync"}

\* C1: two runs for the same document whose steps interleave in any order,
\* also when both name their branch at the same clock value, each succeed and
\* each own a distinct branch ref pointing at their own commit (no upstream
\* call of either run having been rejected for a reason outside the pipeline).
C1_ConcurrentSafety ==
  \A r, q \in Runs :
    (r # q /\ Done(r) /\ Done(q)
       /\ Has(r, "git.getRef") /\ Has(q, "git.getRef")
       /\ ~run[r].fault /\ ~run[q].fault)
    => /\ run[r].status = 200 /\ run[q].status = 200
       /\ run[r].branch # run[q].branch
       /\ RefName(run[r].branch) \in DOMAIN refs
       /\ refs[RefName(run[r].branch)] = run[r].commit

\* C2 (as stated): a run started after a successful run has ended, and fed
\* the same document, is a no-op: it performs no host write.
C2_Idempotence ==
  \A r, q \in Runs :
    (Done(r) /\ q \in run[r].after /\ Succeeded(q)
       /\ run[r].fetchStatus = 200 /\ run[r].figmaJson = run[q].figmaJson)
    => HostWrites(r) = 0

\* C2 (amended): a run started after a successful run has ended, and fed the
\* same document, generates the identical file set but publishes again: when
\* it succeeds it has made every host write and owns a branch ref and a
\* change request of its own, distinct from the first run's.
C2_Republishes ==
  \A r, q \in Runs :
    (Succeeded(r) /\ q \in run[r].after /\ Succeeded(q)
       /\ run[r].figmaJson = run[q].figmaJson)
    => /\ run[r].files = run[q].files
       /\ HostWrites(r) = Len(run[r].files) + 4
       /\ run[r].branch # run[q].branch
       /\ RefName(run[r].branch) \in DOMAIN refs
       /\ RefName(run[q].branch) \in DOMAIN refs
       /\ run[r].pr # run[q].pr
       /\ run[r].pr \in 1..Len(pulls)
       /\ pulls[run[r].pr].head = run[r].branch
       /\ pulls[run[q].pr].head = run[q].branch

C2_Witness ==
  \E r, q \in Runs :
    /\ Succeeded(r) /\ q \in run[r].after /\ Succeeded(q)
    /\ run[r].figmaJson = run[q].figmaJson

\* C3: a run that has ended either created both its branch ref and its
\* change request, or neither.
C3_NoPartialPublish ==
  \A r \in Runs :
    Done(r) =>
      (   (Has(r, "git.createRef") /\ RefName(run[r].branch) \in DOMAIN refs)
      <=> (Has(r, "pulls.create")
             /\ \E k \in 1..Len(pulls) : pulls[k].head = run[r].branch) )

\* C4: a run whose document fetch got a non-OK answer ends with a failure
\* result and has made no host call at all; while no run has got past its
\* fetch and nobody else has pushed, the host is exactly as it started.
C4_FetchFailureNoHostOp ==
  /\ \A r \in Runs :
       FetchFailed(r) =>
         /\ run[r].status = 500
         /\ run[r].log = << >>
         /\ run[r].branch = << >> /\ run[r].commit = NoCommit /\ run[r].pr = 0
  /\ (pushes = 0 /\ \A r \in Runs : run[r].pc \in {"idle", "fetch"} \/ FetchFailed(r))
     => /\ refs \in InitialRefSets(variant, hostDefault)
        /\ blobs = {InitialTree(variant)[p] : p \in DOMAIN InitialTree(variant)}
        /\ trees = {InitialTree(variant)}
        /\ commits = {InitialCommit(variant)}
        /\ pulls = << >>

C4_Witness ==
  \E r, q \in Runs :
    /\ r # q
    /\ FetchFailed(r) /\ run[r].fetchStatus = 403
    /\ FetchFailed(q) /\ run[q].fetchStatus = 500

\* C5: every commit a run creates has exactly one parent, the head of the
\* base branch as the host had it when that run read it.
C5_SingleParentLiveHead ==
  /\ \A r \in Runs :
       Has(r, "git.createCommit") =>
         /\ run[r].commit \in commits
         /\ Len(run[r].commit.parents) = 1
         /\ run[r].commit.parents[1] = run[r].headAtRead
  /\ \A c \in commits :
       AutoSync(c) => Len(c.parents) = 1 /\ ~AutoSync(c.parents[1])

\* a run committed on a head that somebody pushed before the run read it
C5_Witness ==
  \E r, q \in Runs :
    /\ r # q
    /\ Has(r, "git.createCommit") /\ Has(q, "git.createCommit")
    /\ run[r].headAtRead = InitialCommit(variant)
    /\ run[q].headAtRead # InitialCommit(variant)

\* C6: the tree a run creates is the tree of the base commit it resolved with
\* exactly the generated paths overridden by the blobs it wrote.
C6_TreeMinimality ==
  \A r \in Runs :
    Has(r, "git.createTree") =>
      LET base == run[r].headAtRead.tree
          t == run[r].tree
          genPaths == Paths(run[r].files)
      IN  /\ t \in trees
          /\ DOMAIN t = DOMAIN base \cup genPaths
          /\ \A p \in genPaths : t[p] = ContentAt(run[r].files, p) /\ t[p] \in blobs
          /\ \A p \in DOMAIN base \ genPaths : t[p] = base[p]
          /\ Has(r, "git.createCommit") => run[r].commit.tree = t

\* the tree was built on a pushed head: it keeps the pushed README and
\* replaces the old tokens file
C6_Witness ==
  \E r \in Runs :
    /\ Has(r, "git.createCommit")
    /\ run[r].tree[ReadmePath] = << "readme", "1" >>
    /\ run[r].tree[TokensPath(variant)] = TokensContent
    /\ run[r].headAtRead.tree[TokensPath(variant)] # TokensContent

\* C7: no step of a run changes or deletes a ref that exists; a step of a
\* run adds at most one ref.
C7_ExistingRefsUntouched ==
  [][ run' # run =>
        /\ \A n \in DOMAIN refs : n \in DOMAIN refs' /\ refs'[n] = refs[n]
        /\ Cardinality(DOMAIN refs') <= Cardinality(DOMAIN refs) + 1 ]_vars

\* both runs created their branch ref, at different clock values, after a push
C7_Witness ==
  \E r, q \in Runs :
    /\ r # q /\ pushes > 0
    /\ Has(r, "git.createRef") /\ Has(q, "git.createRef")
    /\ refs[RefName(run[r].branch)] = run[r].commit
    /\ refs[RefName(run[q].branch)] = run[q].commit

\* C8: a run that succeeds has created exactly one branch, one commit and one
\* open change request; the request's head is the branch, the branch points
\* at the commit and the commit's parent is the base head the run found. On
\* the host there is one branch per created ref and one request per run that
\* opened one.
C8_ExactlyOne ==
  /\ \A r \in Runs :
       Succeeded(r) =>
         /\ Count(r, "git.createRef") = 1
         /\ Count(r, "git.createCommit") = 1
         /\ Count(r, "pulls.create") = 1
         /\ run[r].pr \in 1..Len(pulls)
         /\ pulls[run[r].pr] =
              [head |-> run[r].branch, base |-> run[r].baseBranch, state |-> "open"]
         /\ Cardinality({k \in 1..Len(pulls) : pulls[k].head = run[r].branch}) = 1
         /\ RefName(run[r].branch) \in DOMAIN refs
         /\ refs[RefName(run[r].branch)] = run[r].commit
         /\ run[r].commit.parents = << run[r].headAtRead >>
  /\ Cardinality(SyncRefs) = Cardinality({r \in Runs : Has(r, "git.createRef")})
  /\ Len(pulls) = Cardinality({r \in Runs : Has(r, "pulls.create")})

C8_Witness ==
  \E r \in Runs :
    /\ Succeeded(r) /\ run[r].after = {}
    /\ Cardinality(SyncRefs) = 1 /\ Len(pulls) = 1

\* C9: every run that ended after a failed step answered 500; a run answered
\* 200 only when it created the change request or was deliberately skipped.
C9_FailuresSurface ==
  \A r \in Runs :
    Done(r) =>
      /\ run[r].status \in {200, 500}
      /\ (run[r].status = 200) <=>
           \/ Succeeded(r) /\ run[r].failedAt = ""
           \/ /\ Skipped(r) /\ variant = "root" /\ run[r].fileId = OtherFileId
              /\ run[r].log = << >> /\ run[r].failedAt = ""
      /\ (run[r].status = 500) <=> run[r].failedAt # ""

\* failures of the fetch, of the generator and of a host call, all answered
C9_Witness ==
  \E r, q \in Runs :
    /\ Done(r) /\ run[r].failedAt = "generateCode" /\ run[r].status = 500
    /\ Done(q) /\ run[q].failedAt = "git.createTree" /\ run[q].status = 500

\* C10 (as stated): a run whose fetch met a transient failure made more than
\* one attempt, and one whose fetch met Unauthorized/NotFound made one.
C10_RetriesTransient ==
  \A r \in Runs :
    Done(r) =>
      /\ run[r].fetchStatus \in Transient => run[r].attempts > 1
      /\ run[r].fetchStatus \in {403, 404} => run[r].attempts = 1

\* C10 (amended): the fetch is attempted once per run whatever the answer; a
\* non-OK answer, transient or not, fails the run after that one attempt.
C10_SingleAttempt ==
  \A r \in Runs :
    /\ run[r].attempts <= 1
    /\ run[r].fetchStatus # 0 => run[r].attempts = 1
    /\ run[r].fetchStatus \notin {0, 200} => Done(r) /\ run[r].status = 500

C10_Witness ==
  \E r, q \in Runs :
    /\ Done(r) /\ run[r].fetchStatus = 429 /\ run[r].attempts = 1
    /\ Done(q) /\ run[q].fetchStatus = 404 /\ run[q].attempts = 1

\* ------------------------------------------- properties of generateCode
Generated == gen.calls >= 1

\* the top-level children of the document's first page, as the document has them
GenChildren == IF Len(gen.doc.pages) = 0 THEN << >> ELSE gen.doc.pages[1].children

FrameIdx(ch) == {i \in 1..Len(ch) : ch[i].type = "FRAME"}

\* the position of the k-th frame among the children
KthFrame(ch, k) ==
  CHOOSE i \in FrameIdx(ch) : Cardinality({j \in FrameIdx(ch) : j < i}) = k - 1

FrameNames(ch) == [k \in 1..Cardinality(FrameIdx(ch)) |-> ch[KthFrame(ch, k)].name]

\* the array printed into screens.map.ts, read back from the file's content
Manifest(files) ==
  LET c == ContentAt(files, ScreensPath(variant))
  IN  SubSeq(c, 2, Len(c) - 1)

Range(q) == {q[k] : k \in 1..Len(q)}

\* the generated files that are neither tokens, manifest nor index
ScreenModules(files) ==
  Paths(files) \ {TokensPath(variant), ScreensPath(variant), IndexPath(variant)}

IndexOf(files) == ContentAt(files, IndexPath(variant))

SharedName(ch) ==
  \E i, j \in FrameIdx(ch) : i # j /\ ch[i].name = ch[j].name

C12_ManifestIsFrameNames ==
  Generated =>
    /\ Len(gen.first) > 0
    /\ Manifest(gen.first) = FrameNames(GenChildren)
    /\ (Len(gen.doc.pages) = 0 \/ Len(GenChildren) = 0) => Manifest(gen.first) = << >>

\* a non-frame child between two frames is dropped and the order is kept
C12_Witness ==
  /\ Generated
  /\ GenChildren = << Node("FRAME", "Settings"), Node("TEXT", "Home"),
                      Node("FRAME", "Home") >>
  /\ Manifest(gen.first) = << "Settings", "Home" >>

\* C13 (as stated): the file set holds one module per screen of the manifest,
\* the tokens, the manifest and an index that references every screen module.
C13_ModulePerScreen ==
  Generated =>
    LET m == Manifest(gen.first)
    IN  /\ ScreenModules(gen.first) = {ModulePath(variant, m[k]) : k \in 1..Len(m)}
        /\ {TokensPath(variant), ScreensPath(variant), IndexPath(variant)}
             \subseteq Paths(gen.first)
        /\ \A k \in 1..Len(m) : ExportLine(m[k]) \in Range(IndexOf(gen.first))

\* C13 (amended): whatever the document, the file set is the tokens, the
\* manifest, the one fixed module Home and an index that exports Home and the
\* manifest only; the screens of the manifest get no module of their own.
C13_FixedFileSet ==
  Generated =>
    /\ Len(gen.first) = 4
    /\ Paths(gen.first) =
         {TokensPath(variant), ScreensPath(variant), HomePath(variant), IndexPath(variant)}
    /\ ScreenModules(gen.first) = {ModulePath(variant, "Home")}
    /\ Range(IndexOf(gen.first)) = {ExportLine("Home"), "export screens from ./screens.map"}

\* frames Home and Settings: one module, an index that exports Home only
C13_Witness ==
  /\ Generated
  /\ Manifest(gen.first) = << "Home", "Settings" >>
  /\ ModulePath(variant, "Settings") \notin Paths(gen.first)
  /\ ExportLine("Settings") \notin Range(IndexOf(gen.first))

\* C14 (as stated): when two frames share a name the file set holds one screen
\* module path per frame, all distinct.
C14_DistinctModulePerFrame ==
  (Generated /\ SharedName(GenChildren)) =>
    /\ Cardinality(ScreenModules(gen.first)) = Cardinality(FrameIdx(GenChildren))
    /\ \A i, j \in 1..Len(gen.first) : i # j => gen.first[i].path # gen.first[j].path

\* C14 (amended): when two frames share a name the manifest lists the name
\* once per frame, no path is generated twice, and the only screen module is
\* the fixed Home module.
C14_NoOverwriteOneModule ==
  (Generated /\ SharedName(GenChildren)) =>
    /\ \A i, j \in 1..Len(gen.first) : i # j => gen.first[i].path # gen.first[j].path
    /\ Manifest(gen.first) = FrameNames(GenChildren)
    /\ Len(Manifest(gen.first)) = Cardinality(FrameIdx(GenChildren))
    /\ ScreenModules(gen.first) = {ModulePath(variant, "Home")}

C14_Witness ==
  /\ Generated
  /\ GenChildren = << Node("FRAME", "Home"), Node("FRAME", "Home") >>
  /\ Manifest(gen.first) = << "Home", "Home" >>
  /\ Cardinality(ScreenModules(gen.first)) = 1

\* C15 (as stated): with no screen the manifest is empty, no screen module is
\* emitted and the tokens and the index are still produced.
C15_NoModuleWithoutScreen ==
  (Generated /\ FrameIdx(GenChildren) = {}) =>
    /\ Manifest(gen.first) = << >>
    /\ ScreenModules(gen.first) = {}
    /\ {TokensPath(variant), IndexPath(variant)} \subseteq Paths(gen.first)

\* C15 (amended): with no screen the manifest is empty and the tokens and the
\* index are still produced, and so is the fixed Home module, which the index
\* still exports.
C15_HomeEmittedWithoutScreen ==
  (Generated /\ FrameIdx(GenChildren) = {}) =>
    /\ Manifest(gen.first) = << >>
    /\ {TokensPath(variant), IndexPath(variant)} \subseteq Paths(gen.first)
    /\ ContentAt(gen.first, TokensPath(variant)) = TokensContent
    /\ ScreenModules(gen.first) = {ModulePath(variant, "Home")}
    /\ ExportLine("Home") \in Range(IndexOf(gen.first))

\* a page whose only children are not frames
C15_Witness ==
  /\ Generated
  /\ GenChildren = << Node("TEXT", "Home"), Node("TEXT", "Settings") >>
  /\ Manifest(gen.first) = << >>
  /\ HomePath(variant) \in Paths(gen.first)

\* ------------------------------------------------ properties of openPR
\* the host operations of one run of openPR over `n` files, in order
ExpectedOps(v, n) ==
  (IF v = "root" THEN << "repos.get" >> ELSE << >>)
  \o << "git.getRef" >>
  \o [k \in 1..n |-> "git.createBlob"]
  \o << "git.createTree", "git.createCommit", "git.createRef", "pulls.create" >>

IsPrefix(q, full) ==
  Len(q) <= Len(full) /\ \A k \in 1..Len(q) : q[k] = full[k]

FailedAtHost(r) == Done(r) /\ run[r].failedAt \in HostSteps

\* the blob ids a run has written so far
OwnBlobs(r) == {run[r].treeItems[k].sha : k \in 1..Len(run[r].treeItems)}

TreeBlobs(t) == {t[p] : p \in DOMAIN t}

\* the operations done so far are the first ones of the fixed order, and a
\* failed step is the one that was next: nothing after it was done
OrderKept ==
  \A r \in Runs :
    LET full == ExpectedOps(variant, Len(run[r].files))
    IN  /\ IsPrefix(run[r].log, full)
        /\ (Done(r) /\ run[r].failedAt \in {"fetch", "generateCode"})
             => run[r].log = << >>
        /\ FailedAtHost(r) =>
             /\ Len(run[r].log) < Len(full)
             /\ full[Len(run[r].log) + 1] = run[r].failedAt
        /\ run[r].failedAt # "" => Done(r)

\* every ref points at a commit on the host whose tree and blobs are on the host
RefsComplete ==
  \A n \in DOMAIN refs :
    /\ refs[n] \in commits
    /\ refs[n].tree \in trees
    /\ TreeBlobs(refs[n].tree) \subseteq blobs

\* the blobs a failed run has written are in no tree, and so under no commit
\* and no ref, of the host
FailedBlobsUnreferenced ==
  \A r \in Runs :
    FailedAtHost(r) =>
      /\ \A t \in trees : TreeBlobs(t) \cap OwnBlobs(r) = {}
      /\ \A c \in commits : TreeBlobs(c.tree) \cap OwnBlobs(r) = {}
      /\ \A n \in DOMAIN refs : TreeBlobs(refs[n].tree) \cap OwnBlobs(r) = {}

\* what a failed run leaves on the host, by the step that failed
FailureResidue ==
  \A r \in Runs :
    FailedAtHost(r) =>
      /\ OwnBlobs(r) \subseteq blobs
      /\ run[r].failedAt \in {"repos.get", "git.getRef", "git.createBlob", "git.createTree"}
           => /\ ~Has(r, "git.createTree") /\ ~Has(r, "git.createCommit")
              /\ ~Has(r, "git.createRef")
              /\ run[r].tree = EmptyTree /\ run[r].commit = NoCommit
      /\ run[r].failedAt \in {"git.createCommit", "git.createRef", "pulls.create"}
           => /\ run[r].tree \in trees
              /\ OwnBlobs(r) # {} /\ OwnBlobs(r) \subseteq TreeBlobs(run[r].tree)
      /\ run[r].failedAt \in {"git.createRef", "pulls.create"}
           => run[r].commit \in commits /\ run[r].commit.tree = run[r].tree
      /\ run[r].failedAt = "git.createCommit" => run[r].commit = NoCommit
      /\ run[r].failedAt = "pulls.create"
           => /\ RefName(run[r].branch) \in DOMAIN refs
              /\ refs[RefName(run[r].branch)].tree = run[r].tree

\* C16 (as stated): the host operations of a run happen in the fixed order, a
\* failure prevents every later step, no ref points at a commit with a missing
\* tree or blob, and blobs written before a failure are referenced by no tree,
\* commit or ref.
C16_FailedBlobsInert ==
  OrderKept /\ RefsComplete /\ FailedBlobsUnreferenced

\* C16 (amended): the order, the stop at the first failure and the
\* completeness of every ref hold; blobs written before a failure at a blob
\* write or at the tree creation are in no tree, commit or ref made by that
\* run, while after a failure at createCommit the run's tree holds them, after
\* a failure at createRef its commit holds that tree, and after a failure at
\* pulls.create its branch ref leads to them.
C16_OrderAndResidue ==
  OrderKept /\ RefsComplete /\ FailureResidue

\* one run failed at createCommit with its tree on the host, the other at a
\* blob write with blobs but no tree of its own
C16_Witness ==
  \E r, q \in Runs :
    /\ FailedAtHost(r) /\ run[r].failedAt = "git.createCommit"
    /\ run[r].tree \in trees /\ OwnBlobs(r) \subseteq TreeBlobs(run[r].tree)
    /\ FailedAtHost(q) /\ run[q].failedAt = "git.createBlob"
    /\ Len(run[q].treeItems) = 2 /\ run[q].tree = EmptyTree

\* the base head a run read had moved by the time the run created its ref
Moved(r) ==
  run[r].headAtRef # NoCommit /\ run[r].headAtRef # run[r].headAtRead

RECURSIVE DescendsFrom(_, _)
DescendsFrom(c, a) ==
  c = a \/ (Len(c.parents) > 0 /\ DescendsFrom(c.parents[1], a))

\* C17: when the base head moved between a run's getRef and its createRef, the
\* run's commit keeps the head it read as only parent, createRef is rejected
\* for no other reason than an upstream fault or a taken branch name, the run
\* goes on to its branch and its pull request, and the base branch keeps the
\* head it was moved to.
C17_StaleBaseCompletes ==
  \A r \in Runs :
    Moved(r) =>
      /\ run[r].commit.parents = << run[r].headAtRead >>
      /\ run[r].failedAt = "git.createRef" =>
           \/ run[r].fault
           \/ \E q \in Runs \ {r} :
                run[q].branch = run[r].branch /\ Has(q, "git.createRef")
      /\ Has(r, "git.createRef") =>
           /\ refs[RefName(run[r].branch)] = run[r].commit
           /\ run[r].pc \in {"pulls.create", "done"}
      /\ Succeeded(r) =>
           /\ run[r].status = OkStatus
           /\ pulls[run[r].pr].head = run[r].branch
           /\ pulls[run[r].pr].base = run[r].baseBranch
      /\ LET h == refs[RefName(run[r].baseBranch)]
         IN  ~AutoSync(h) /\ h # run[r].headAtRead /\ DescendsFrom(h, run[r].headAtRef)

\* a run succeeded on a base that had been pushed to after the run read it
C17_Witness ==
  \E r \in Runs :
    /\ Moved(r) /\ Succeeded(r)
    /\ run[r].commit.parents = << InitialCommit(variant) >>
    /\ refs[RefName(run[r].baseBranch)].message = "push"
    /\ refs[RefName(run[r].branch)] = run[r].commit

\* ------------------------------------------- properties of the handler
\* C18: in the root build a delivery for another file is answered 200 with no
\* fetch and no host operation, and no other delivery is answered that way: a
\* delivery naming the configured file or no file goes to the fetch and, when
\* nothing fails, through every host operation of the pipeline.
C18_OnlyOtherFileSkipped ==
  variant = "root" =>
    \A r \in Runs :
      /\ run[r].fileId = OtherFileId =>
           /\ Done(r) /\ run[r].status = OkStatus
           /\ run[r].attempts = 0 /\ run[r].fetchStatus = 0
           /\ run[r].files = << >> /\ run[r].log = << >>
      /\ Skipped(r) => run[r].fileId = OtherFileId
      /\ run[r].fileId = FIGMA_FILE_ID => run[r].pc = "fetch"
      /\ run[r].pc \notin {"idle", "done", "fetch"} => run[r].attempts = 1
      /\ (Done(r) /\ run[r].failedAt = "" /\ ~Skipped(r)) =>
           /\ run[r].attempts = 1
           /\ run[r].log = ExpectedOps(variant, Len(run[r].files))

\* one delivery for another file was dropped with the host untouched by it,
\* the other went through the whole pipeline
C18_Witness ==
  /\ variant = "root"
  /\ \E r, q \in Runs :
       /\ run[r].fileId = OtherFileId /\ Skipped(r) /\ run[r].status = OkStatus
       /\ Succeeded(q) /\ run[q].attempts = 1 /\ Len(pulls) = 1

\* C19: in every run the branch whose head is read and becomes the commit's
\* parent is the base of the pull request, and it is the host's default branch
\* as the run read it ("main" when the host reports none).
C19_BaseIsHostDefault ==
  \A r \in Runs :
    /\ Has(r, "git.getRef") =>
         /\ run[r].baseBranch = HostBranch(hostDefault)
         /\ run[r].baseSha = run[r].headAtRead
    /\ Has(r, "git.createCommit") => run[r].commit.parents = << run[r].headAtRead >>
    /\ Succeeded(r) =>
         /\ pulls[run[r].pr].base = run[r].baseBranch
         /\ pulls[run[r].pr].base = HostBranch(hostDefault)

Responded(r) == run[r].status \in {OkStatus, ErrorStatus}

\* C20: every delivery taken up is answered, a run that has not answered has
\* its next step enabled whatever the other run does, the response is sent
\* when the handler ends and at no other time, and an answered run does
\* nothing more.
C20_RespondsOnce ==
  /\ \A r \in Runs : (run[r].pc # "idle") ~> (Done(r) /\ Responded(r))
  /\ [][\A r \in Runs :
          /\ (run[r].pc \notin {"idle", "done"}) => ENABLED RunStep(r)
          /\ run[r].status # 0 <=> Done(r)
          /\ run[r].status # 0 => run'[r] = run[r]]_vars

\* both deliveries were answered, one with success and one with failure, after
\* their steps interleaved
C20_Witness ==
  \E r, q \in Runs :
    /\ Succeeded(r) /\ run[r].status = OkStatus
    /\ Done(q) /\ run[q].status = ErrorStatus /\ run[q].failedAt = "git.createTree"
    /\ run[r].after = {} /\ run[q].after = {}

TypeOK ==
  /\ variant \in Variants
  /\ now \in 0..MaxClock
  /\ \A r \in Runs : run[r].status \in {0, 200, 500}
====
